---- MODULE Spec2Model ----
(***************************************************************************)
(* State-machine model of the DDPG-CBF training loop of                    *)
(* pendulum/DDPG-CBF/ddpg.py: main() and train().                          *)
(*                                                                         *)
(* Angles are integers in tenths of a radian.  The collaborators that are  *)
(* imported by ddpg.py (replay_buffer, dynamics_gp, cbf, barrier_comp,     *)
(* learner, gym) are modelled at their interface.                          *)
(***************************************************************************)
EXTENDS Integers, Sequences, FiniteSets, TLC

(* ------------------------------ bounds -------------------------------- *)
\* args["max_episodes"]: number of outer iterations of the run
MaxEpisodes == 6
\* largest args["max_episode_len"] explored: timesteps per episode
MaxEpisodeLen == 3
\* env.reset() calls explored per episode
MaxResets == 4
\* magnitude of the exploration-noise state explored
MaxNoise == 1

\* length of a complete episode: the 200 rows of reshape((200, 3)), scaled down
EpisodeRows == 3
\* resolution of the angle grid: math.pi is PiTicks grid ticks
PiTicks == 4
\* largest |x| of the angle grid, in ticks
MaxAngle == 20

(* -------------------------- program constants ------------------------- *)
\* for el in range(5)
EpisodesPerIter == 5
\* if el <= 3
LastFitEpisode == 3
\* if i <= 4
LastCompIter == 4
\* env.unwrapped.state[0] > 0.8 / < -0.8, in tenths
BandHigh == 8
BandLow == 0 - BandHigh
\* max_episode_steps of the registered Pendulum-v0 (gym TimeLimit): the 200 the reshape expects
TimeLimit == EpisodeRows

\* values env.reset() / env.step() leave in env.unwrapped.state[0]
ResetAngles == {0 - 9, 8, 9}
StepAngles == {8, 9}
Rewards == {0 - 1, 0}
NoiseIncrements == {0 - 1, 0, 1}
BufferSizes == {0, 1, 2}
MinibatchSizes == {0, 1}
\* env.action_space.low of the environment made by gym.make; high is max_torque
ActionLows == {0 - 15, 0 - 14}
ActionHigh == 15

NoPath == [iter |-> 0 - 1, ep |-> 0 - 1, rows |-> 0]
NoModel == [built |-> 0 - 1, fits |-> <<>>]
NoSample == [n |-> 0 - 1, size |-> 0 - 1]
NoQuery == [which |-> "none", model |-> NoModel]
NoAngle == [stage |-> "none", x |-> 0, y |-> 0, yy |-> 0]

VARIABLES
  pc,            \* position in main()/train()
  args,          \* the parsed options (constant during a run)
  action_low,    \* env.action_space.low (high is ActionHigh)
  i, el, j,      \* loop indices of train()
  firstIter,     \* agent.firstIter
  GP_model,      \* agent.GP_model
  GP_model_prev, \* agent.GP_model_prev
  bar_comp,      \* agent.bar_comp: number of trainings, rollouts last handed over
  replay_count,  \* replay_buffer.size()
  counter_step, counter_iter,
  paths, path,   \* list of path records, last path record built
  rewards,       \* per-episode list (obs, action, action_bar, action_BAR grow in step with it)
  ep_reward,
  s, s2, r, terminal,
  envState,      \* env.unwrapped.state[0]
  x_prev,        \* actor_noise.x_prev
  act,           \* [rl, BAR, RL, bar, out]: action_rl, u_BAR_, action_RL, u_bar_, action_
  \* history variables
  resets,        \* angles returned by env.reset() for the episode being started
  queried,       \* dynamics model used by the latest query
  cbfInput,      \* state passed to the latest cbf.control_barrier call
  nCBF, nEnvStep,
  envUsed,       \* env.reset() or env.step() has been called
  elapsed,       \* steps the environment has taken since its last reset
  lastSample,    \* the sample_batch request of the latest timestep, if any
  gpIterEnd,     \* agent.GP_model as it stood when the latest iteration ended
  angle,         \* an angle_normalize evaluation: [stage, x, y, yy]
  nGetAction     \* number of agent.bar_comp.get_action calls made so far

vars == <<pc, args, action_low, i, el, j, firstIter, GP_model, GP_model_prev, bar_comp,
          replay_count, counter_step, counter_iter, paths, path, rewards, ep_reward,
          s, s2, r, terminal, envState, x_prev, act, resets, queried, cbfInput,
          nCBF, nEnvStep, envUsed, elapsed, lastSample, gpIterEnd, angle, nGetAction>>

(* --------------------------- collaborators ---------------------------- *)
\* dynamics_gp.build_GP_model(agent): a fresh model, tagged by the iteration that built it
build_GP_model(tag) == [built |-> tag, fits |-> <<>>]

\* agent.GP_model.copy()
copy(m) == m

\* dynamics_gp.update_GP_dynamics(agent, path): incremental fit of agent.GP_model
update_GP_dynamics(m, p) == [m EXCEPT !.fits = Append(@, <<p.iter, p.ep>>)]

PathIds(ps) == [k \in 1..Len(ps) |-> <<ps[k].iter, ps[k].ep>>]

\* agent.bar_comp.get_training_rollouts(paths); agent.bar_comp.train()
bar_comp_train(b, ps) == [trained |-> b.trained + 1, rollouts |-> PathIds(ps)]

\* agent.bar_comp.get_action(s)[0]
get_action(b, st) == IF b.trained = 0 THEN 0 ELSE 1

\* actor.predict(s)
actor_predict(st) == 0

\* cbf.control_barrier(agent, s, action_RL, f, g, x, std)
control_barrier(st, u) == IF st > BandHigh \/ st < BandLow THEN 0 - u ELSE 0

\* replay_buffer.add: ring buffer of capacity cap
replay_add(cnt, cap) == IF cnt < cap THEN cnt + 1 ELSE cnt

(* ----------------------- decisions of train() ------------------------- *)
\* faulty variant: the lower side of the band is not tested
OutOfBand_UpperOnly(th) == th > BandHigh

\* while env.unwrapped.state[0] > 0.8 or env.unwrapped.state[0] < -0.8
OutOfBand(th) == th > BandHigh \/ th < BandLow

\* faulty variant: the current model is queried in every iteration
SelectModel_AlwaysCurrent(f, cur, prev) == [which |-> "current", model |-> cur]

\* if agent.firstIter == 1: get_GP_dynamics else: get_GP_dynamics_prev
SelectModel(f, cur, prev) ==
  IF f = 1 THEN [which |-> "current", model |-> cur]
           ELSE [which |-> "prev", model |-> prev]

\* faulty variant: the compensator is queried in the first iteration too
CompensationCalls_Always(f) == 1

\* get_action calls of a timestep: none under agent.firstIter == 1, one otherwise
CompensationCalls(f) == IF f = 1 THEN 0 ELSE 1

\* if agent.firstIter == 1: u_BAR_ = [0] else: get_action(s)[0]
Compensation(f, b, st) == IF f = 1 THEN 0 ELSE get_action(b, st)

\* faulty variant: the gate opens one transition early
BufferWarm_AtLeast(size, mb) == size >= mb

\* if replay_buffer.size() > int(args["minibatch_size"])
BufferWarm(size, mb) == size > mb

\* faulty variant: the observation is not advanced
NextObs_Stale(st, st2) == st

\* s = s2
NextObs(st, st2) == st2

\* faulty variant: the flag is cleared in the else branch of the i <= 4 test
FlagAfterIter_InElse(iter, f) == IF iter <= LastCompIter THEN f ELSE 0

\* agent.firstIter = 0, last statement of the outer loop body
FlagAfterIter(iter, f) == 0

\* faulty variant: the shift by pi before the modulo is missing
angle_normalize_NoShift(x) == (x % (2 * PiTicks)) - PiTicks

\* angle_normalize(x) = ((x + math.pi) % (2 * math.pi)) - math.pi; % takes the divisor's sign
angle_normalize(x) == ((x + PiTicks) % (2 * PiTicks)) - PiTicks

\* OrnsteinUhlenbeckActionNoise.__call__: drift and Gaussian term as one increment
OUStep(x, n) == x + n

Init ==
  /\ pc = "main"
  /\ args \in [buffer_size : BufferSizes, minibatch_size : MinibatchSizes,
               max_episodes : {MaxEpisodes},
               max_episode_len : {MaxEpisodeLen - 1, MaxEpisodeLen}]
  /\ action_low \in ActionLows
  /\ i = 0 /\ el = 0 /\ j = 0
  /\ firstIter = 1
  /\ GP_model = NoModel /\ GP_model_prev = NoModel
  /\ bar_comp = [trained |-> 0, rollouts |-> <<>>]
  /\ replay_count = 0 /\ counter_step = 0 /\ counter_iter = 0
  /\ paths = <<>> /\ path = NoPath
  /\ rewards = <<>> /\ ep_reward = 0
  /\ s = 0 /\ s2 = 0 /\ r = 0 /\ terminal = FALSE
  /\ envState = 0
  /\ x_prev = 0
  /\ act = [rl |-> 0, BAR |-> 0, RL |-> 0, bar |-> 0, out |-> 0]
  /\ resets = <<>>
  /\ queried = NoQuery
  /\ cbfInput = 0
  /\ nCBF = 0 /\ nEnvStep = 0
  /\ envUsed = FALSE /\ elapsed = 0
  /\ lastSample = NoSample
  /\ gpIterEnd = NoModel
  /\ angle = NoAngle
  /\ nGetAction = 0

(* ------------------------------ main() -------------------------------- *)
\* main(): environment set-up, the symmetric-bound assertion, construction of the agent
Main ==
  /\ pc = "main"
  /\ IF ActionHigh # 0 - action_low
       THEN pc' = "crashed" /\ UNCHANGED GP_model
       ELSE pc' = "train" /\ GP_model' = build_GP_model(0)
  /\ UNCHANGED <<angle, nGetAction, args, action_low, i, el, j, firstIter, GP_model_prev, bar_comp,
          replay_count, counter_step, counter_iter, paths, path, rewards, ep_reward,
          s, s2, r, terminal, envState, x_prev, act, resets, queried, cbfInput,
          nCBF, nEnvStep, envUsed, elapsed, lastSample, gpIterEnd>>

\* ReplayBuffer(buffer_size, seed): a store of non-positive capacity is refused
ReplayBufferRejects(cap) == cap <= 0

\* train() up to the outer loop: replay memory, counters, paths
TrainInit ==
  /\ pc = "train"
  /\ IF ReplayBufferRejects(args.buffer_size)
       THEN pc' = "crashed"
       ELSE pc' = "iter_begin"
  /\ replay_count' = 0 /\ counter_step' = 0 /\ counter_iter' = 0
  /\ paths' = <<>>
  /\ i' = 0
  /\ UNCHANGED <<angle, nGetAction, args, action_low, el, j, firstIter, GP_model, GP_model_prev, bar_comp,
          path, rewards, ep_reward,
          s, s2, r, terminal, envState, x_prev, act, resets, queried, cbfInput,
          nCBF, nEnvStep, envUsed, elapsed, lastSample, gpIterEnd>>

(* ------------------------------ train() ------------------------------- *)
\* for i in range(max_episodes): snapshot and rebuild of the GP model unless first iteration
IterBegin ==
  /\ pc = "iter_begin"
  /\ IF i < args.max_episodes
       THEN /\ IF firstIter = 1
                 THEN UNCHANGED <<GP_model, GP_model_prev>>
                 ELSE /\ GP_model_prev' = copy(GP_model)
                      /\ GP_model' = build_GP_model(i)
            /\ el' = 0
            /\ pc' = "ep_begin"
       ELSE /\ pc' = "done"
            /\ UNCHANGED <<GP_model, GP_model_prev, el>>
  /\ UNCHANGED <<angle, nGetAction, args, action_low, i, j, firstIter, bar_comp,
          replay_count, counter_step, counter_iter, paths, path, rewards, ep_reward,
          s, s2, r, terminal, envState, x_prev, act, resets, queried, cbfInput,
          nCBF, nEnvStep, envUsed, elapsed, lastSample, gpIterEnd>>

\* start of the el loop body: the per-episode lists and the first env.reset()
EpBegin ==
  /\ pc = "ep_begin"
  /\ rewards' = <<>>
  /\ \E th \in ResetAngles :
       /\ envState' = th
       /\ s' = th
       /\ resets' = <<th>>
  /\ envUsed' = TRUE /\ elapsed' = 0
  /\ pc' = "reset_check"
  /\ UNCHANGED <<angle, nGetAction, args, action_low, i, el, j, firstIter, GP_model, GP_model_prev, bar_comp,
          replay_count, counter_step, counter_iter, paths, path, ep_reward,
          s2, r, terminal, x_prev, act, queried, cbfInput,
          nCBF, nEnvStep, lastSample, gpIterEnd>>

\* body of the while loop: another env.reset()
ResetRetry ==
  /\ pc = "reset_check"
  /\ OutOfBand(envState)
  /\ Len(resets) < MaxResets
  /\ \E th \in ResetAngles :
       /\ envState' = th
       /\ s' = th
       /\ resets' = Append(resets, th)
  /\ envUsed' = TRUE /\ elapsed' = 0
  /\ UNCHANGED <<angle, nGetAction, pc, args, action_low, i, el, j, firstIter, GP_model, GP_model_prev, bar_comp,
          replay_count, counter_step, counter_iter, paths, path, rewards, ep_reward,
          s2, r, terminal, x_prev, act, queried, cbfInput,
          nCBF, nEnvStep, lastSample, gpIterEnd>>

\* exit of the while loop: ep_reward = 0 and entry of the j loop
EpStart ==
  /\ pc = "reset_check"
  /\ ~OutOfBand(envState)
  /\ ep_reward' = 0
  /\ j' = 0
  /\ pc' = IF 0 < args.max_episode_len THEN "policy" ELSE "ep_end"
  /\ UNCHANGED <<angle, nGetAction, args, action_low, i, el, firstIter, GP_model, GP_model_prev, bar_comp,
          replay_count, counter_step, counter_iter, paths, path, rewards,
          s, s2, r, terminal, envState, x_prev, act, resets, queried, cbfInput,
          nCBF, nEnvStep, envUsed, elapsed, lastSample, gpIterEnd>>

\* a = actor.predict(s) + actor_noise(); compensation; dynamics query
Policy ==
  /\ pc = "policy"
  /\ \E n \in NoiseIncrements :
       /\ OUStep(x_prev, n) <= MaxNoise
       /\ OUStep(x_prev, n) >= 0 - MaxNoise
       /\ x_prev' = OUStep(x_prev, n)
  /\ LET rl  == actor_predict(s) + x_prev'
         BAR == Compensation(firstIter, bar_comp, s)
     IN act' = [act EXCEPT !.rl = rl, !.BAR = BAR, !.RL = rl + BAR]
  /\ nGetAction' = nGetAction + CompensationCalls(firstIter)
  /\ queried' = SelectModel(firstIter, GP_model, GP_model_prev)
  /\ resets' = <<>>
  /\ pc' = "barrier"
  /\ UNCHANGED <<angle, args, action_low, i, el, j, firstIter, GP_model, GP_model_prev, bar_comp,
          replay_count, counter_step, counter_iter, paths, path, rewards, ep_reward,
          s, s2, r, terminal, envState, cbfInput,
          nCBF, nEnvStep, envUsed, elapsed, lastSample, gpIterEnd>>

\* u_bar_ = cbf.control_barrier(agent, s, action_RL, f, g, x, std); action_ = action_RL + u_bar_
Barrier ==
  /\ pc = "barrier"
  /\ cbfInput' = s
  /\ nCBF' = nCBF + 1
  /\ LET bar == control_barrier(s, act.RL)
     IN act' = [act EXCEPT !.bar = bar, !.out = act.RL + bar]
  /\ pc' = "envstep"
  /\ UNCHANGED <<angle, nGetAction, args, action_low, i, el, j, firstIter, GP_model, GP_model_prev, bar_comp,
          replay_count, counter_step, counter_iter, paths, path, rewards, ep_reward,
          s, s2, r, terminal, envState, x_prev, resets, queried,
          nEnvStep, envUsed, elapsed, lastSample, gpIterEnd>>

\* s2, r, terminal, info = env.step(action_); counter_step += 1
EnvStep ==
  /\ pc = "envstep"
  /\ \E th \in StepAngles, rw \in Rewards, term \in BOOLEAN :
       /\ elapsed + 1 >= TimeLimit => term
       /\ envState' = th
       /\ s2' = th
       /\ r' = rw
       /\ terminal' = term
  /\ nEnvStep' = nEnvStep + 1
  /\ envUsed' = TRUE /\ elapsed' = elapsed + 1
  /\ counter_step' = counter_step + 1
  /\ pc' = "store"
  /\ UNCHANGED <<angle, nGetAction, args, action_low, i, el, j, firstIter, GP_model, GP_model_prev, bar_comp,
          replay_count, counter_iter, paths, path, rewards, ep_reward,
          s, x_prev, act, resets, queried, cbfInput,
          nCBF, lastSample, gpIterEnd>>

\* replay_buffer.add(...); the gated sample_batch and critic/actor update
StoreUpdate ==
  /\ pc = "store"
  /\ replay_count' = replay_add(replay_count, args.buffer_size)
  /\ IF BufferWarm(replay_count', args.minibatch_size)
       THEN /\ lastSample' = [n |-> args.minibatch_size, size |-> replay_count']
            /\ IF args.minibatch_size <= 0
                 \* np.amax of an empty prediction array raises
                 THEN pc' = "crashed" /\ UNCHANGED counter_iter
                 ELSE pc' = "record" /\ counter_iter' = counter_iter + 1
       ELSE /\ lastSample' = NoSample
            /\ pc' = "record"
            /\ UNCHANGED counter_iter
  /\ UNCHANGED <<angle, nGetAction, args, action_low, i, el, j, firstIter, GP_model, GP_model_prev, bar_comp,
          counter_step, paths, path, rewards, ep_reward,
          s, s2, r, terminal, envState, x_prev, act, resets, queried, cbfInput,
          nCBF, nEnvStep, envUsed, elapsed, gpIterEnd>>

\* path = {"Observation": ..., "Reward": np.asarray(rewards)}
MakePath(iter, ep, rws) == [iter |-> iter, ep |-> ep, rows |-> Len(rws)]

\* s = s2; ep_reward += r; the appends; the terminal branch; next j
Record ==
  /\ pc = "record"
  /\ s' = NextObs(s, s2)
  /\ ep_reward' = ep_reward + r
  /\ rewards' = Append(rewards, r)
  /\ IF terminal
       THEN IF Len(rewards') # EpisodeRows
              \* np.concatenate(obs).reshape((200, 3)) raises
              THEN pc' = "crashed" /\ UNCHANGED <<path, paths, j>>
              ELSE /\ path' = MakePath(i, el, rewards')
                   /\ paths' = Append(paths, path')
                   /\ pc' = "ep_end"
                   /\ UNCHANGED j
       ELSE /\ j' = j + 1
            /\ pc' = IF j + 1 < args.max_episode_len THEN "policy" ELSE "ep_end"
            /\ UNCHANGED <<path, paths>>
  /\ UNCHANGED <<angle, nGetAction, args, action_low, i, el, firstIter, GP_model, GP_model_prev, bar_comp,
          replay_count, counter_step, counter_iter,
          s2, r, terminal, envState, x_prev, act, resets, queried, cbfInput,
          nCBF, nEnvStep, envUsed, elapsed, lastSample, gpIterEnd>>

\* if el <= 3: dynamics_gp.update_GP_dynamics(agent, path); next el
EpEnd ==
  /\ pc = "ep_end"
  /\ IF el <= LastFitEpisode
       THEN IF path = NoPath
              \* the name path is not bound yet
              THEN pc' = "crashed" /\ UNCHANGED <<GP_model, el>>
              ELSE /\ GP_model' = update_GP_dynamics(GP_model, path)
                   /\ el' = el + 1
                   /\ pc' = IF el + 1 < EpisodesPerIter THEN "ep_begin" ELSE "iter_end"
       ELSE /\ el' = el + 1
            /\ pc' = IF el + 1 < EpisodesPerIter THEN "ep_begin" ELSE "iter_end"
            /\ UNCHANGED GP_model
  /\ UNCHANGED <<angle, nGetAction, args, action_low, i, j, firstIter, GP_model_prev, bar_comp,
          replay_count, counter_step, counter_iter, paths, path, rewards, ep_reward,
          s, s2, r, terminal, envState, x_prev, act, resets, queried, cbfInput,
          nCBF, nEnvStep, envUsed, elapsed, lastSample, gpIterEnd>>

\* if i <= 4: compensation training; agent.firstIter = 0; next i
IterEnd ==
  /\ pc = "iter_end"
  /\ bar_comp' = IF i <= LastCompIter THEN bar_comp_train(bar_comp, paths) ELSE bar_comp
  /\ firstIter' = FlagAfterIter(i, firstIter)
  /\ gpIterEnd' = GP_model
  /\ i' = i + 1
  /\ pc' = "iter_begin"
  /\ UNCHANGED <<angle, nGetAction, args, action_low, el, j, GP_model, GP_model_prev,
          replay_count, counter_step, counter_iter, paths, path, rewards, ep_reward,
          s, s2, r, terminal, envState, x_prev, act, resets, queried, cbfInput,
          nCBF, nEnvStep, envUsed, elapsed, lastSample>>

Next ==
  \/ Main
  \/ TrainInit
  \/ IterBegin
  \/ EpBegin
  \/ ResetRetry
  \/ EpStart
  \/ Policy
  \/ Barrier
  \/ EnvStep
  \/ StoreUpdate
  \/ Record
  \/ EpEnd
  \/ IterEnd

Spec == Init /\ [][Next]_vars

(* ------------------- angle_normalize on a grid of angles -------------- *)
\* the training loop is not started; an input angle is drawn from the grid
AngleInit ==
  /\ pc = "angle"
  /\ args = [buffer_size |-> 1, minibatch_size |-> 1, max_episodes |-> MaxEpisodes,
             max_episode_len |-> MaxEpisodeLen]
  /\ action_low = 0 - ActionHigh
  /\ i = 0 /\ el = 0 /\ j = 0
  /\ firstIter = 1
  /\ GP_model = NoModel /\ GP_model_prev = NoModel
  /\ bar_comp = [trained |-> 0, rollouts |-> <<>>]
  /\ replay_count = 0 /\ counter_step = 0 /\ counter_iter = 0
  /\ paths = <<>> /\ path = NoPath
  /\ rewards = <<>> /\ ep_reward = 0
  /\ s = 0 /\ s2 = 0 /\ r = 0 /\ terminal = FALSE
  /\ envState = 0
  /\ x_prev = 0
  /\ act = [rl |-> 0, BAR |-> 0, RL |-> 0, bar |-> 0, out |-> 0]
  /\ resets = <<>>
  /\ queried = NoQuery
  /\ cbfInput = 0
  /\ nCBF = 0 /\ nEnvStep = 0
  /\ envUsed = FALSE /\ elapsed = 0
  /\ lastSample = NoSample
  /\ gpIterEnd = NoModel
  /\ nGetAction = 0
  /\ \E x \in (0 - MaxAngle)..MaxAngle :
       angle = [stage |-> "input", x |-> x, y |-> 0, yy |-> 0]

TrainVars == <<pc, args, action_low, i, el, j, firstIter, GP_model, GP_model_prev, bar_comp,
          replay_count, counter_step, counter_iter, paths, path, rewards, ep_reward,
          s, s2, r, terminal, envState, x_prev, act, resets, queried, cbfInput,
          nCBF, nEnvStep, envUsed, elapsed, lastSample, gpIterEnd, nGetAction>>

\* y = angle_normalize(x)
Normalize ==
  /\ angle.stage = "input"
  /\ angle' = [angle EXCEPT !.stage = "once", !.y = angle_normalize(angle.x)]
  /\ UNCHANGED TrainVars

\* yy = angle_normalize(y)
Renormalize ==
  /\ angle.stage = "once"
  /\ angle' = [angle EXCEPT !.stage = "twice", !.yy = angle_normalize(angle.y)]
  /\ UNCHANGED TrainVars

AngleNext ==
  \/ Normalize
  \/ Renormalize

SpecAngle == AngleInit /\ [][AngleNext]_vars

(* ------------------------------ claims -------------------------------- *)
InBand(th) == th >= 0 - 8 /\ th <= 8
StepPcs == {"policy", "barrier", "envstep", "store", "record"}
FitsOfIteration(iter) == [k \in 1..(LastFitEpisode + 1) |-> <<iter, k - 1>>]
AllMinusOne(rws) == \A k \in 1..Len(rws) : rws[k] = 0 - 1
InvalidConfig ==
  \/ ActionHigh # 0 - action_low
  \/ args.buffer_size <= 0
  \/ args.minibatch_size <= 0

\* C1: agent.firstIter is 1 exactly while the run is in outer iteration 0, is 0 in every
\* later iteration and at the end of the run, and its only change is the one from 1 to 0
\* made when iteration 0 ends, after all 5 of its episodes.
C1_FlagInv ==
  /\ firstIter \in {0, 1}
  /\ (firstIter = 1) <=> (i = 0)
  /\ pc = "done" => firstIter = 0
C1_FlagStep ==
  firstIter' # firstIter =>
    /\ firstIter = 1 /\ firstIter' = 0
    /\ pc = "iter_end" /\ i = 0 /\ el = EpisodesPerIter
C1_FirstIterOnce == [] C1_FlagInv /\ [][C1_FlagStep]_vars
C1_Witness == pc = "envstep" /\ i = 2 /\ firstIter = 0

\* C2: the dynamics query of a timestep uses the current GP model in iteration 0 and the
\* previous model in every iteration i >= 1; that previous model is current as it stood
\* when iteration i-1 ended (built for i-1, fitted with its first 4 episodes), current has
\* been rebuilt for iteration i, and iteration 0 neither snapshots nor rebuilds.
C2_LaggedModel ==
  /\ (pc \in {"barrier", "envstep", "store", "record"} /\ i = 0) =>
        /\ queried = [which |-> "current", model |-> GP_model]
  /\ (pc \in StepPcs \cup {"ep_begin", "reset_check", "ep_end", "iter_end"} /\ i = 0) =>
        /\ GP_model.built = 0
        /\ GP_model_prev = NoModel
  /\ (pc \in {"barrier", "envstep", "store", "record"} /\ i >= 1) =>
        /\ queried = [which |-> "prev", model |-> GP_model_prev]
  /\ (pc \in StepPcs \cup {"ep_begin", "reset_check", "ep_end", "iter_end"} /\ i >= 1) =>
        /\ GP_model_prev = gpIterEnd
        /\ GP_model_prev.built = i - 1
        /\ GP_model_prev.fits = FitsOfIteration(i - 1)
        /\ GP_model.built = i
C2_Witness ==
  /\ pc = "envstep" /\ i = 2 /\ el = 3
  /\ queried.which = "prev" /\ queried.model.built = 1
  /\ Len(GP_model.fits) = 3

\* C3: the safety filter runs once per environment step and before it: the numbers of
\* control_barrier calls and of env.step calls equal counter_step between timesteps, the
\* filter is one call ahead exactly when env.step is about to be applied, and then its
\* input state is the state the environment is in.
C3_FilterBeforeStep ==
  /\ nEnvStep = counter_step
  /\ pc = "envstep" => (nCBF = nEnvStep + 1 /\ cbfInput = envState)
  /\ pc # "envstep" => nCBF = nEnvStep
C3_Witness == pc = "envstep" /\ j = 1 /\ nCBF = 2 /\ cbfInput = 9

\* C4: at the first timestep of every episode the noise state x_prev is the initial
\* value x0 = 0 (reset() has been called since the previous episode).
C4_NoiseResetPerEpisode == (pc = "policy" /\ j = 0) => x_prev = 0

\* C5: compensation training has run once per finished iteration among the first 5 and the
\* rollouts handed to the training that ends iteration i are exactly that iteration's 5.
C5_TrainOnIterationRollouts ==
  (pc = "iter_begin" /\ i >= 1) =>
     /\ bar_comp.trained = (IF i <= 5 THEN i ELSE 5)
     /\ i <= 5 => bar_comp.rollouts = [k \in 1..5 |-> <<i - 1, k - 1>>]

\* C6: when the end of an episode el <= 3 is processed, update_GP_dynamics is called once
\* with the rollout of that same episode, and it is not called after the 5th episode,
\* whether or not the episode ended by a terminal signal.
C6_FitStep ==
  pc = "ep_end" /\ pc' # "ep_end" =>
    IF el <= 3
      THEN GP_model' = [GP_model EXCEPT !.fits = Append(@, <<i, el>>)]
      ELSE GP_model' = GP_model
C6_FitOwnRollout == [][C6_FitStep]_vars

\* C7: an episode whose timestep loop has run all max_episode_len steps with reward -1
\* each and no terminal signal has ep_reward = -max_episode_len and has appended to paths
\* one path record of its own, as long as the number of steps taken.
C7_FullEpisodePath ==
  (pc = "ep_end" /\ ~terminal /\ AllMinusOne(rewards)) =>
     /\ Len(rewards) = args.max_episode_len
     /\ ep_reward = 0 - args.max_episode_len
     /\ Len(paths) >= 1
     /\ paths[Len(paths)] = [iter |-> i, ep |-> el, rows |-> Len(rewards)]

\* C8: a timestep samples a minibatch and updates critic and actor if and only if the
\* store, after the add, holds strictly more than minibatch_size transitions; no sample
\* request exceeds the store's size; counter_iter grows by 1 per update and never exceeds
\* counter_step.
C8_GateInv ==
  /\ counter_iter <= counter_step
  /\ lastSample # NoSample => lastSample.n <= lastSample.size
  /\ pc = "record" =>
       ((lastSample # NoSample) <=> (replay_count > args.minibatch_size))
C8_GateStep ==
  /\ counter_iter' # counter_iter =>
       (pc = "store" /\ counter_iter' = counter_iter + 1)
  /\ (pc = "store" /\ pc' = "record") =>
       ((counter_iter' = counter_iter + 1) <=> (replay_count' > args.minibatch_size))
C9_ResetUntilInBand ==
  /\ pc = "reset_check" =>
       /\ Len(resets) >= 1 /\ elapsed = 0
       /\ envState = resets[Len(resets)]
       /\ \A k \in 1..(Len(resets) - 1) : ~InBand(resets[k])
  /\ (pc = "policy" /\ j = 0) =>
       /\ Len(resets) >= 1 /\ elapsed = 0
       /\ envState = resets[Len(resets)]
       /\ InBand(resets[Len(resets)])
       /\ \A k \in 1..(Len(resets) - 1) : ~InBand(resets[k])
  /\ (pc \in {"barrier", "envstep"} /\ j = 0) => InBand(envState)
C9_Witness == pc = "policy" /\ j = 0 /\ resets = <<9, 0 - 9, 9, 8>>

\* C10: a configuration with asymmetric action bounds, a non-positive buffer capacity or a
\* non-positive minibatch size aborts before any environment reset or step and before any
\* policy/critic update.
C10_InvalidConfigFailsFast ==
  InvalidConfig => (~envUsed /\ nEnvStep = 0 /\ counter_iter = 0 /\ lastSample = NoSample)

\* C11 (as stated): angle_normalize maps every grid angle into (-pi, pi] and is idempotent.
C11_IntoHalfOpenAbove ==
  /\ angle.stage \in {"once", "twice"} => (angle.y > 0 - PiTicks /\ angle.y <= PiTicks)
  /\ angle.stage = "twice" => angle.yy = angle.y

\* C11 (amended): angle_normalize maps every grid angle into [-pi, pi), odd multiples of
\* pi going to -pi, and is idempotent.
C11_IntoHalfOpenBelow ==
  /\ angle.stage \in {"once", "twice"} => (angle.y >= 0 - PiTicks /\ angle.y < PiTicks)
  /\ angle.stage = "twice" => angle.yy = angle.y
C11_Witness ==
  /\ angle.stage = "twice"
  /\ angle.x = 3 * PiTicks
  /\ angle.y = 0 - PiTicks /\ angle.yy = 0 - PiTicks

\* C12: the compensation model is not queried before it has been trained: in iteration 0
\* no get_action call is made and the compensation correction is 0; every get_action call
\* comes after a completed bar_comp.train(); from iteration 1 on every timestep makes one
\* call and the candidate action handed to the safety filter, and the action applied, contain
\* the prediction.
C12_CompInv ==
  /\ i = 0 => (nGetAction = 0 /\ act.BAR = 0)
  /\ nGetAction > 0 => bar_comp.trained >= 1
  /\ (pc \in {"barrier", "envstep", "store", "record"} /\ i >= 1) =>
        /\ nGetAction >= 1
        /\ act.BAR = 1
        /\ act.RL = act.rl + act.BAR
  /\ pc \in {"barrier", "envstep", "store", "record"} => act.RL = act.rl + act.BAR
  /\ pc \in {"envstep", "store", "record"} => act.out = act.rl + act.BAR + act.bar
C12_CompStep ==
  /\ (pc = "policy" /\ pc' = "barrier") =>
        nGetAction' = nGetAction + (IF i = 0 THEN 0 ELSE 1)
  /\ ~(pc = "policy" /\ pc' = "barrier") => nGetAction' = nGetAction
C12_TrainedBeforeQueried == [] C12_CompInv /\ [][C12_CompStep]_vars
C12_Witness ==
  /\ pc = "barrier" /\ i = 1 /\ el = 0 /\ j = 0
  /\ nGetAction = 1 /\ bar_comp.trained = 1
  /\ act.BAR = 1 /\ act.RL = act.rl + 1

====
